---- MODULE Spec2Model ----
(***************************************************************************)
(* A model of mock-server.py: a single-threaded HTTPServer whose           *)
(* MockHandler answers GET, POST, PUT and DELETE requests, with            *)
(* ETag / If-None-Match handling for the paths under /api/.                *)
(*                                                                         *)
(* Paths, Content-Length values and bodies are sequences of one-character  *)
(* strings, so that startswith, int() and the %-formatting of log_message  *)
(* are computed character by character.  Other header values are strings.  *)
(***************************************************************************)
EXTENDS Integers, Sequences, FiniteSets, TLC

VARIABLES data_store, clock, conns, served, pc, responses, log, outcome

vars == <<data_store, clock, conns, served, pc, responses, log, outcome>>

(***************************************************************************)
(* Bounds of the model.                                                    *)
(***************************************************************************)
\* number of connections the clients open
MaxReq == 2
\* the wall clock runs over the seconds 0 .. MaxClock
MaxClock == 1

(***************************************************************************)
(* Values outside every other domain.                                      *)
(***************************************************************************)
\* Python's None, the result of headers.get on an absent header
None == "<None>"

(***************************************************************************)
(* Character sequences.                                                    *)
(***************************************************************************)
RECURSIVE Str(_)
\* the string spelled by a sequence of characters
Str(cs) == IF cs = <<>> THEN "" ELSE Head(cs) \o Str(Tail(cs))

\* str.startswith
startswith(cs, prefix) ==
    /\ Len(cs) >= Len(prefix)
    /\ SubSeq(cs, 1, Len(prefix)) = prefix

Min(a, b) == IF a <= b THEN a ELSE b

\* the characters of the request methods the handler defines a do_ method for
GET    == <<"G", "E", "T">>
POST   == <<"P", "O", "S", "T">>
PUT    == <<"P", "U", "T">>
DELETE == <<"D", "E", "L", "E", "T", "E">>

(***************************************************************************)
(* The request paths of the model.                                         *)
(***************************************************************************)
PathHealth   == <<"/", "h", "e", "a", "l", "t", "h">>
PathUsers    == <<"/", "a", "p", "i", "/", "u", "s", "e", "r", "s">>
PathProducts == <<"/", "a", "p", "i", "/", "p", "r", "o", "d", "u", "c", "t", "s">>
PathOrders   == <<"/", "a", "p", "i", "/", "o", "r", "d", "e", "r", "s">>
PathIndex    == <<"/", "i", "n", "d", "e", "x">>
PathEscaped  == <<"/", "a", "%", "2", "0", "b">>
ApiPrefix    == <<"/", "a", "p", "i", "/">>

\* sys.argv[2]
server_name == <<"s", "e", "r", "v", "e", "r", "1">>

(***************************************************************************)
(* The in-memory "database".                                               *)
(***************************************************************************)
\* a Python list is [type |-> "list", items |-> <<...>>], a dict a record with
\* type "dict" and its keys
UsersData ==
    [type |-> "list",
     items |-> << [type |-> "dict", id |-> 1, name |-> "Marco"],
                  [type |-> "dict", id |-> 2, name |-> "Maria"] >>]
ProductsData ==
    [type |-> "list",
     items |-> << [type |-> "dict", id |-> 1, product |-> "Laptop"],
                  [type |-> "dict", id |-> 2, product |-> "Phone"] >>]

SeedStore ==
    (PathUsers :> [data |-> UsersData, version |-> 1]) @@
    (PathProducts :> [data |-> ProductsData, version |-> 1])

\* the one-off record of a path that is not in the store
SyntheticData(path) ==
    [type |-> "dict", message |-> "Data from " \o Str(server_name), path |-> Str(path)]

(***************************************************************************)
(* json.dumps(data, sort_keys=True) for the shapes of data the server      *)
(* holds: a dict of scalars, keys in sorted order, or a list of them.      *)
(***************************************************************************)
JsonString(s) == "\"" \o s \o "\""

\* the items of a dict of the store as <<key, serialised value>>, in key order
\* (the order the dicts are written in is their sorted order too)
Fields(d) ==
    IF "product" \in DOMAIN d
    THEN << <<"id", ToString(d.id)>>, <<"product", JsonString(d.product)>> >>
    ELSE IF "name" \in DOMAIN d
    THEN << <<"id", ToString(d.id)>>, <<"name", JsonString(d.name)>> >>
    ELSE << <<"message", JsonString(d.message)>>, <<"path", JsonString(d.path)>> >>

RECURSIVE Join(_, _)
\* sep.join(parts)
Join(parts, sep) ==
    IF parts = <<>> THEN ""
    ELSE IF Len(parts) = 1 THEN parts[1]
    ELSE parts[1] \o sep \o Join(Tail(parts), sep)

JsonObject(d) ==
    "{" \o Join([i \in 1..Len(Fields(d)) |->
                    JsonString(Fields(d)[i][1]) \o ": " \o Fields(d)[i][2]], ", ") \o "}"

JsonItems(l) == Join([i \in 1..Len(l) |-> JsonObject(l[i])], ", ")

json_dumps(data) ==
    IF data.type = "list"
    THEN "[" \o JsonItems(data.items) \o "]"
    ELSE JsonObject(data)

(***************************************************************************)
(* hashlib.md5(s.encode()).hexdigest(), tabulated on the strings the       *)
(* server can hash: the serialised data of the three /api/ paths followed  *)
(* by a version number or by further digits.                               *)
(***************************************************************************)
UsersJson    == "[{\"id\": 1, \"name\": \"Marco\"}, {\"id\": 2, \"name\": \"Maria\"}]"
ProductsJson == "[{\"id\": 1, \"product\": \"Laptop\"}, {\"id\": 2, \"product\": \"Phone\"}]"
OrdersJson   == "{\"message\": \"Data from server1\", \"path\": \"/api/orders\"}"

md5_hexdigest(s) ==
    CASE s = UsersJson \o "1"     -> "c602699ead37f423db5c231884853029"
      [] s = UsersJson \o "2"     -> "07ac5399e311d0b43a309c2f55ae65fd"
      [] s = UsersJson \o "10"    -> "909f54f635a0cfb9fe4416f763d3dbac"
      [] s = UsersJson \o "11"    -> "77ea76a5b9658f54b438cb25a0292414"
      [] s = UsersJson \o "12"    -> "a6c0850e1b31c6c25ce3272a92406ccd"
      [] s = UsersJson \o "13"    -> "01e08e020711f82dacc4b16db8d0415d"
      [] s = UsersJson \o "14"    -> "d52d9fdc2d7dc279401d258bfe1bc89d"
      [] s = ProductsJson \o "1"  -> "6ed30a947eda80c6016f02226d146288"
      [] s = ProductsJson \o "2"  -> "3933f5f403ebae595db668f17eee8fb9"
      [] s = ProductsJson \o "10" -> "3b779aa1ed49232ad67ae651b9d1daaf"
      [] s = ProductsJson \o "11" -> "64c76eea1d57779ce5084fcdc652fe79"
      [] s = ProductsJson \o "12" -> "3a2418fc20291da32b974565aa4bdc12"
      [] s = ProductsJson \o "13" -> "83161621856632129c0a1422cbed0eab"
      [] s = ProductsJson \o "14" -> "fb7ed6f076fd2b25d1c1f62e0a563628"
      [] s = OrdersJson \o "1"    -> "e19513c8999924012bc0abf9699a4cb3"
      [] s = OrdersJson \o "2"    -> "4dc6ab3cf625e23e06669af8a06ab2f0"
      [] s = OrdersJson \o "10"   -> "5f18e1e9876be183644c0851aae3519b"
      [] s = OrdersJson \o "11"   -> "e1d3fd41298128b689bbb84e86d04854"
      [] s = OrdersJson \o "12"   -> "5f21b85530044b4a1501e2322dd0ce0b"
      [] s = OrdersJson \o "13"   -> "95e6c43a779ac5c18bba445a24d298b9"
      [] s = OrdersJson \o "14"   -> "72285a5bfe153164413ca256c8df2480"

(***************************************************************************)
(* The wall clock: second t of the model is 1970-01-01 00:00:t UTC.        *)
(***************************************************************************)
TwoDigits(n) == IF n < 10 THEN "0" \o ToString(n) ELSE ToString(n)

\* email.utils.formatdate(timeval=None, localtime=False, usegmt=True) at time t
formatdate(t) ==
    "Thu, 01 Jan 1970 00:" \o TwoDigits(t \div 60) \o ":" \o TwoDigits(t % 60) \o " GMT"

\* datetime.now().isoformat() at time t
isoformat(t) ==
    "1970-01-01T00:" \o TwoDigits(t \div 60) \o ":" \o TwoDigits(t % 60)

(***************************************************************************)
(* int(x) on a string of characters: Python accepts an optional sign       *)
(* followed by decimal digits and raises ValueError otherwise.  The result *)
(* is [raised |-> TRUE] or [raised |-> FALSE, value |-> n].                *)
(***************************************************************************)
Digits == <<"0", "1", "2", "3", "4", "5", "6", "7", "8", "9">>

IsDigit(c) == \E d \in 1..Len(Digits) : Digits[d] = c

DigitValue(c) == (CHOOSE d \in 1..Len(Digits) : Digits[d] = c) - 1

RECURSIVE DecimalValue(_, _)
\* the value of the digits cs read after the value acc
DecimalValue(cs, acc) ==
    IF cs = <<>> THEN acc
    ELSE DecimalValue(Tail(cs), Len(Digits) * acc + DigitValue(Head(cs)))

AllDigits(cs) == cs # <<>> /\ \A i \in 1..Len(cs) : IsDigit(cs[i])

Returned(v) == [raised |-> FALSE, value |-> v]
Raised == [raised |-> TRUE]

int(x) ==
    IF x # <<>> /\ Head(x) \in {"+", "-"}
    THEN IF AllDigits(Tail(x))
         THEN Returned((IF Head(x) = "-" THEN -1 ELSE 1) * DecimalValue(Tail(x), 0))
         ELSE Raised
    ELSE IF AllDigits(x) THEN Returned(DecimalValue(x, 0))
    ELSE Raised

(***************************************************************************)
(* format % () as BaseHTTPRequestHandler.log_message evaluates it on the   *)
(* single string the handlers pass: "%%" yields "%", any other "%" asks    *)
(* for an argument that is not there and raises.                           *)
(***************************************************************************)
RECURSIVE FormatRaises(_)
FormatRaises(cs) ==
    IF cs = <<>> THEN FALSE
    ELSE IF Head(cs) # "%" THEN FormatRaises(Tail(cs))
    ELSE IF Len(cs) >= 2 /\ cs[2] = "%" THEN FormatRaises(Tail(Tail(cs)))
    ELSE TRUE

RECURSIVE Formatted(_)
\* the message, when the format does not raise
Formatted(cs) ==
    IF cs = <<>> THEN ""
    ELSE IF Head(cs) # "%" THEN Head(cs) \o Formatted(Tail(cs))
    ELSE "%" \o Formatted(Tail(Tail(cs)))

PercentFormat(cs) == IF FormatRaises(cs) THEN Raised ELSE Returned(Formatted(cs))

(***************************************************************************)
(* What a handler has done when it returns or raises: the responses it     *)
(* sent on the connection, the lines it logged, whether it raised, and the *)
(* store it leaves.                                                        *)
(***************************************************************************)
Response(status, headers, body) ==
    [status |-> status, headers |-> headers, body |-> body]

Run(sent, lines, raised, store) ==
    [responses |-> sent, log |-> lines, raised |-> raised, store |-> store]

\* self.log_message(format) as the last step of a run that has not raised
log_message(run, format) ==
    LET message == PercentFormat(format)
    IN  IF message.raised
        THEN [run EXCEPT !.raised = TRUE]
        ELSE [run EXCEPT !.log = Append(@, message.value)]

\* f"[{server_name}] {self.command} {self.path}"
RequestLine(req) ==
    <<"[">> \o server_name \o <<"]", " ">> \o req.command \o <<" ">> \o req.path

\* f"[{server_name}] 304 Not Modified (ETag match)"
NotModifiedLine ==
    <<"[">> \o server_name \o
    <<"]", " ", "3", "0", "4", " ", "N", "o", "t", " ", "M", "o", "d", "i", "f", "i", "e", "d",
      " ", "(", "E", "T", "a", "g", " ", "m", "a", "t", "c", "h", ")">>

\* self.headers.get(name)
get(headers, name) == IF name \in DOMAIN headers THEN headers[name] ELSE None

\* the truth value of a header value: None and the empty string are false
Truthy(v) == v # None /\ v # ""

(***************************************************************************)
(* json.dumps(..., indent=2) of the cached endpoint's envelope, whose      *)
(* length is the Content-Length the 200 response declares.                 *)
(***************************************************************************)
JsonObjectIndent(d, pad) ==
    "{\n" \o Join([i \in 1..Len(Fields(d)) |->
                      pad \o "  " \o JsonString(Fields(d)[i][1]) \o ": " \o Fields(d)[i][2]],
                  ",\n")
          \o "\n" \o pad \o "}"

JsonValueIndent(data, pad) ==
    IF data.type = "list"
    THEN IF data.items = <<>> THEN "[]"
         ELSE "[\n" \o Join([i \in 1..Len(data.items) |->
                                pad \o "  " \o JsonObjectIndent(data.items[i], pad \o "  ")],
                            ",\n")
                    \o "\n" \o pad \o "]"
    ELSE JsonObjectIndent(data, pad)

json_dumps_indent(envelope) ==
    "{\n  \"server\": " \o JsonString(envelope.server) \o
    ",\n  \"data\": " \o JsonValueIndent(envelope.data, "  ") \o
    ",\n  \"timestamp\": " \o JsonString(envelope.timestamp) \o "\n}"

(***************************************************************************)
(* MockHandler.handle_cached_endpoint                                      *)
(***************************************************************************)
\* lookup as dict.setdefault would do it: the synthetic record is inserted
lookup_setdefault(store, path) ==
    IF path \in DOMAIN store
    THEN [data |-> store[path].data, version |-> store[path].version, store |-> store]
    ELSE [data |-> SyntheticData(path), version |-> 1,
          store |-> (path :> [data |-> SyntheticData(path), version |-> 1]) @@ store]

\* the record served for a path and the store the lookup leaves: the store's
\* record, or a one-off synthetic record that is not inserted
lookup(store, path) ==
    IF path \in DOMAIN store
    THEN [data |-> store[path].data, version |-> store[path].version, store |-> store]
    ELSE [data |-> SyntheticData(path), version |-> 1, store |-> store]

\* etag_of with the second of the request hashed in
etag_of_timestamped(data, version) ==
    "\"" \o md5_hexdigest(json_dumps(data) \o ToString(version) \o ToString(clock)) \o "\""

\* the ETag: the quoted md5 of the sorted-keys serialisation followed by the version
etag_of(data, version) ==
    "\"" \o md5_hexdigest(json_dumps(data) \o ToString(version)) \o "\""

\* Last-Modified: formatdate(timeval=None) is the time of the call
last_modified_at(now) == formatdate(now)

\* the If-None-Match test taking the header for a bare digest
etag_matches_unquoted(if_none_match, etag) == "\"" \o if_none_match \o "\"" = etag

\* the If-None-Match test
etag_matches(if_none_match, etag) == if_none_match = etag

not_modified(etag, last_modified) ==
    Response(304,
             << <<"ETag", etag>>,
                <<"Cache-Control", "max-age=120, must-revalidate">>,
                <<"Last-Modified", last_modified>> >>,
             <<>>)

\* the If-Modified-Since branch doing what its comment says: "always return 304
\* if header is present and ETag didn't match"
if_modified_since_304(if_modified_since, etag, last_modified) ==
    <<not_modified(etag, last_modified)>>

\* the If-Modified-Since branch, entered when the header is present: what it
\* sends.  Its try and except arms are both pass, so it sends nothing and the
\* request falls through to the full response
if_modified_since_branch(if_modified_since, etag, last_modified) == <<>>

full_response(data, etag, last_modified, now) ==
    LET envelope == [server |-> Str(server_name), data |-> data,
                     timestamp |-> isoformat(now)]
    IN  Response(200,
                 << <<"Content-type", "application/json">>,
                    <<"Content-Length", ToString(Len(json_dumps_indent(envelope)))>>,
                    <<"ETag", etag>>,
                    <<"Last-Modified", last_modified>>,
                    <<"Cache-Control", "max-age=30, must-revalidate">>,
                    <<"Vary", "Accept-Encoding">> >>,
                 <<envelope>>)

handle_cached_endpoint(req, store, now) ==
    LET rec == lookup(store, req.path)
        etag == etag_of(rec.data, rec.version)
        last_modified == last_modified_at(now)
        if_none_match == get(req.headers, "If-None-Match")
        if_modified_since == get(req.headers, "If-Modified-Since")
    IN  IF etag_matches(if_none_match, etag)
        THEN log_message(Run(<<not_modified(etag, last_modified)>>, <<>>, FALSE, rec.store),
                         NotModifiedLine)
        ELSE LET early == IF Truthy(if_modified_since)
                          THEN if_modified_since_branch(if_modified_since, etag, last_modified)
                          ELSE <<>>
             IN  Run(early \o <<full_response(rec.data, etag, last_modified, now)>>,
                     <<>>, FALSE, rec.store)

(***************************************************************************)
(* MockHandler.do_GET                                                      *)
(***************************************************************************)
health_response ==
    Response(200,
             << <<"Content-type", "application/json">>, <<"Cache-Control", "no-cache">> >>,
             << [status |-> "healthy", server |-> Str(server_name)] >>)

\* the regular endpoint refusing the paths it does not know
regular_response_404(req, now) ==
    Response(404,
             << <<"Content-type", "application/json">>, <<"Cache-Control", "max-age=60">> >>,
             << [message |-> "Hello from " \o Str(server_name),
                 path |-> Str(req.path),
                 method |-> "GET",
                 timestamp |-> isoformat(now),
                 headers |-> req.headers] >>)

regular_response(req, now) ==
    Response(200,
             << <<"Content-type", "application/json">>, <<"Cache-Control", "max-age=60">> >>,
             << [message |-> "Hello from " \o Str(server_name),
                 path |-> Str(req.path),
                 method |-> "GET",
                 timestamp |-> isoformat(now),
                 headers |-> req.headers] >>)

get_run(req, store, now) ==
    LET branch ==
            IF req.path = PathHealth
            THEN Run(<<health_response>>, <<>>, FALSE, store)
            ELSE IF startswith(req.path, ApiPrefix)
            THEN handle_cached_endpoint(req, store, now)
            ELSE Run(<<regular_response(req, now)>>, <<>>, FALSE, store)
    IN  IF branch.raised THEN branch ELSE log_message(branch, RequestLine(req))

(***************************************************************************)
(* MockHandler.do_POST, which do_PUT calls, and do_DELETE                  *)
(***************************************************************************)
\* int(self.headers.get('Content-Length', 0))
content_length(headers) ==
    IF "Content-Length" \in DOMAIN headers
    THEN int(headers["Content-Length"])
    ELSE Returned(0)

\* self.rfile.read(n) of a buffered socket file returns once n bytes or the
\* end of the stream have arrived
read_ready(conn, n) == Len(conn.sent) >= n \/ conn.eof

rfile_read(conn, n) == SubSeq(conn.sent, 1, Min(n, Len(conn.sent)))

\* the envelope naming the method of the request instead of "POST"
post_envelope_command(req, body, now) ==
    [message |-> Str(req.command) \o " received by " \o Str(server_name),
     path |-> Str(req.path),
     method |-> Str(req.command),
     timestamp |-> isoformat(now),
     body |-> Str(body),
     headers |-> req.headers]

post_envelope(req, body, now) ==
    [message |-> "POST received by " \o Str(server_name),
     path |-> Str(req.path),
     method |-> "POST",
     timestamp |-> isoformat(now),
     body |-> Str(body),
     headers |-> req.headers]

\* do_POST from send_response on, with the body it has read
post_run(req, body, store, now) ==
    log_message(Run(<< Response(200, << <<"Content-type", "application/json">> >>,
                                <<post_envelope(req, body, now)>>) >>,
                    <<>>, FALSE, store),
                RequestLine(req))

delete_run(req, store, now) ==
    log_message(Run(<< Response(200, << <<"Content-type", "application/json">> >>,
                                << [message |-> "DELETE received by " \o Str(server_name),
                                    path |-> Str(req.path),
                                    timestamp |-> isoformat(now)] >>) >>,
                    <<>>, FALSE, store),
                RequestLine(req))

(***************************************************************************)
(* State.                                                                  *)
(*   data_store  the module-level dict                                     *)
(*   clock       the wall clock, in seconds                                *)
(*   conns       the connections in the order the listener accepts them:   *)
(*               the request, the body bytes that have arrived, and        *)
(*               whether the client has shut down its sending side         *)
(*   served      how many connections the server has finished with         *)
(*   pc          "accept": serve_forever waits for the next connection;    *)
(*               "read": do_POST is inside rfile.read on connection        *)
(*               served + 1                                                *)
(*   responses   per connection, the responses written to it               *)
(*   log         per connection, the lines its handler logged              *)
(*   outcome     per connection: "queued", "handling", "returned" (the     *)
(*               handler returned) or "raised" (it raised and the server   *)
(*               closed the connection)                                    *)
(***************************************************************************)
Init ==
    /\ data_store = SeedStore
    /\ clock = 0
    /\ conns = <<>>
    /\ served = 0
    /\ pc = "accept"
    /\ responses = <<>>
    /\ log = <<>>
    /\ outcome = <<>>

(***************************************************************************)
(* The clients.                                                            *)
(***************************************************************************)
HeaderValues(resp, name) ==
    {resp.headers[k][2] : k \in {j \in 1..Len(resp.headers) : resp.headers[j][1] = name}}

\* the ETag values the server has sent so far in answer to a GET for path p
SeenETags(p) ==
    UNION {UNION {HeaderValues(responses[i][k], "ETag") : k \in 1..Len(responses[i])} :
             i \in {j \in 1..Len(responses) :
                      conns[j].req.command = GET /\ conns[j].req.path = p}}

\* a validator a client made up
BogusETag == "\"0123456789abcdef0123456789abcdef\""

\* an ETag with its quotes dropped, and as a weak validator
Unquoted(e) == CHOOSE h \in {md5_hexdigest(c \o v) :
                               c \in {UsersJson, ProductsJson, OrdersJson},
                               v \in {"1", "2", "10", "11", "12", "13", "14"}} :
                   "\"" \o h \o "\"" = e
Weak(e) == "W/" \o e

SomeDate == "Thu, 01 Jan 1970 00:00:00 GMT"

\* the conditional headers of a GET to a path p under /api/: none, a made-up
\* validator, a validator the server sent for p (as sent, unquoted or weak), and
\* If-Modified-Since alone or beside a validator the server sent
ConditionalHeaders(p) ==
    {<<>>, [x \in {"If-None-Match"} |-> BogusETag], [x \in {"If-Modified-Since"} |-> SomeDate]}
    \cup {[x \in {"If-None-Match"} |-> v] :
            v \in SeenETags(p) \cup {Unquoted(e) : e \in SeenETags(p)}
                               \cup {Weak(e) : e \in SeenETags(p)}}
    \cup {[x \in {"If-None-Match", "If-Modified-Since"} |->
             IF x = "If-None-Match" THEN e ELSE SomeDate] : e \in SeenETags(p)}

\* the body a POST or PUT client has to send
ClientBody == <<"h", "i">>

\* the Content-Length a POST or PUT declares and the body bytes that arrive
\* with the request
Uploads ==
    {[headers |-> <<>>, sent |-> <<>>],
     [headers |-> [x \in {"Content-Length"} |-> <<"0">>], sent |-> ClientBody],
     [headers |-> [x \in {"Content-Length"} |-> <<"2">>], sent |-> ClientBody],
     [headers |-> [x \in {"Content-Length"} |-> <<"2">>], sent |-> <<>>],
     [headers |-> [x \in {"Content-Length"} |-> <<"x">>], sent |-> ClientBody]}

ClientConnections ==
    {[req |-> [command |-> GET, path |-> p, headers |-> <<>>], sent |-> <<>>, eof |-> FALSE] :
        p \in {PathHealth, PathIndex, PathEscaped}}
    \cup UNION {{[req |-> [command |-> GET, path |-> p, headers |-> h],
                  sent |-> <<>>, eof |-> FALSE] : h \in ConditionalHeaders(p)} :
                   p \in {PathUsers, PathProducts, PathOrders}}
    \cup {[req |-> [command |-> c, path |-> PathUsers, headers |-> u.headers],
           sent |-> u.sent, eof |-> FALSE] : c \in {POST, PUT}, u \in Uploads}
    \cup {[req |-> [command |-> DELETE, path |-> PathUsers, headers |-> <<>>],
           sent |-> <<>>, eof |-> FALSE]}

\* a client connects and sends a request
Connect ==
    /\ Len(conns) < MaxReq
    /\ \E c \in ClientConnections : conns' = Append(conns, c)
    /\ responses' = Append(responses, <<>>)
    /\ log' = Append(log, <<>>)
    /\ outcome' = Append(outcome, "queued")
    /\ UNCHANGED <<data_store, clock, served, pc>>

\* the client the server is waiting for sends the rest of its body
Send ==
    /\ pc = "read"
    /\ ~conns[served + 1].eof
    /\ Len(conns[served + 1].sent) < Len(ClientBody)
    /\ conns' = [conns EXCEPT ![served + 1].sent = ClientBody]
    /\ UNCHANGED <<data_store, clock, served, pc, responses, log, outcome>>

\* the client the server is waiting for shuts down the sending side of its
\* connection
Shutdown ==
    /\ pc = "read"
    /\ ~conns[served + 1].eof
    /\ conns' = [conns EXCEPT ![served + 1].eof = TRUE]
    /\ UNCHANGED <<data_store, clock, served, pc, responses, log, outcome>>

Tick ==
    /\ clock < MaxClock
    /\ clock' = clock + 1
    /\ UNCHANGED <<data_store, conns, served, pc, responses, log, outcome>>

(***************************************************************************)
(* The server: HTTPServer.serve_forever handles one connection at a time,  *)
(* one request per connection (protocol_version is HTTP/1.0).              *)
(***************************************************************************)
\* the handler of connection i ends: what it sent and logged is on record, the
\* connection is closed, and the server goes back to accepting
Finish(i, run) ==
    /\ responses' = [responses EXCEPT ![i] = run.responses]
    /\ log' = [log EXCEPT ![i] = run.log]
    /\ outcome' = [outcome EXCEPT ![i] = IF run.raised THEN "raised" ELSE "returned"]
    /\ data_store' = run.store
    /\ served' = i
    /\ pc' = "accept"
    /\ UNCHANGED <<clock, conns>>

\* the connection the server takes next
Next_i == served + 1

Dispatch(command) ==
    /\ pc = "accept"
    /\ Next_i <= Len(conns)
    /\ conns[Next_i].req.command = command

do_GET ==
    /\ Dispatch(GET)
    /\ Finish(Next_i, get_run(conns[Next_i].req, data_store, clock))

\* do_POST up to the return of rfile.read, or to where it blocks
post_begin(i) ==
    LET req == conns[i].req
        n == content_length(req.headers)
    IN  IF n.raised
        THEN Finish(i, Run(<<>>, <<>>, TRUE, data_store))
        ELSE IF n.value > 0 /\ ~read_ready(conns[i], n.value)
        THEN /\ pc' = "read"
             /\ outcome' = [outcome EXCEPT ![i] = "handling"]
             /\ UNCHANGED <<data_store, clock, conns, served, responses, log>>
        ELSE Finish(i, post_run(req,
                                IF n.value > 0 THEN rfile_read(conns[i], n.value) ELSE <<>>,
                                data_store, clock))

do_POST ==
    /\ Dispatch(POST)
    /\ post_begin(Next_i)

do_PUT ==
    /\ Dispatch(PUT)
    /\ post_begin(Next_i)

\* rfile.read returns in a do_POST that was blocked in it
read_returns ==
    /\ pc = "read"
    /\ LET req == conns[Next_i].req
           n == content_length(req.headers)
       IN  /\ read_ready(conns[Next_i], n.value)
           /\ Finish(Next_i, post_run(req, rfile_read(conns[Next_i], n.value),
                                      data_store, clock))

do_DELETE ==
    /\ Dispatch(DELETE)
    /\ Finish(Next_i, delete_run(conns[Next_i].req, data_store, clock))

Server == do_GET \/ do_POST \/ do_PUT \/ do_DELETE \/ read_returns

Next ==
    \/ Connect
    \/ Send
    \/ Shutdown
    \/ Tick
    \/ do_GET
    \/ do_POST
    \/ do_PUT
    \/ do_DELETE
    \/ read_returns

Spec == Init /\ [][Next]_vars

(***************************************************************************)
(* Views of the state the properties are stated over.                      *)
(***************************************************************************)
Ids == 1..Len(conns)

Req(i) == conns[i].req

\* the handler of connection i has ended, by returning or by raising
Ended(i) == outcome[i] \in {"returned", "raised"}

IsGet(i) == Req(i).command = GET

IsApi(i) == startswith(Req(i).path, ApiPrefix)

IfNoneMatch(i) == get(Req(i).headers, "If-None-Match")

\* a response without the time it was built at
Timeless(resp) ==
    [resp EXCEPT !.body = [k \in 1..Len(resp.body) |->
                            [f \in DOMAIN resp.body[k] \ {"timestamp"} |-> resp.body[k][f]]]]

(***************************************************************************)
(* C1.  A GET to /api/users whose If-None-Match is the ETag of an earlier  *)
(* 200 response for /api/users is answered by exactly one response: 304,   *)
(* with an empty body and that same ETag.                                  *)
(***************************************************************************)
RevalidatesUsers(i, j) ==
    /\ i < j
    /\ IsGet(i) /\ Req(i).path = PathUsers
    /\ IsGet(j) /\ Req(j).path = PathUsers
    /\ Ended(j)
    /\ \E k \in 1..Len(responses[i]) :
          /\ responses[i][k].status = 200
          /\ IfNoneMatch(j) \in HeaderValues(responses[i][k], "ETag")

FullResponseShape(resp) ==
    /\ resp.status = 200
    /\ Len(resp.body) = 1
    /\ DOMAIN resp.body[1] = {"server", "data", "timestamp"}
    /\ Cardinality(HeaderValues(resp, "ETag")) = 1
    /\ Cardinality(HeaderValues(resp, "Last-Modified")) = 1
    /\ HeaderValues(resp, "Cache-Control") = {"max-age=30, must-revalidate"}
    /\ Cardinality(HeaderValues(resp, "Vary")) = 1

MalformedLength(i) ==
    /\ Req(i).command \in {POST, PUT}
    /\ content_length(Req(i).headers).raised

C4_MalformedLengthIsZero ==
    \A i \in Ids :
        (MalformedLength(i) /\ Ended(i)) =>
            /\ outcome[i] = "returned"
            /\ Len(responses[i]) = 1
            /\ responses[i][1].status = 200
            /\ responses[i][1].body[1].body = ""

(***************************************************************************)
(* C5.  Any two responses to requests under /api/ carry the same           *)
(* Last-Modified value, whenever they were produced.                       *)
(***************************************************************************)
C5_LastModifiedFixed ==
    \A i \in Ids : \A j \in Ids :
        (IsGet(i) /\ IsApi(i) /\ IsGet(j) /\ IsApi(j)) =>
            \A k \in 1..Len(responses[i]) : \A l \in 1..Len(responses[j]) :
                HeaderValues(responses[i][k], "Last-Modified")
                    = HeaderValues(responses[j][l], "Last-Modified")

(***************************************************************************)
(* C6.  Every request the listener has accepted is answered exactly once.  *)
(* Stated on states: no connection ever carries more than one response, a  *)
(* connection whose handler has ended carries one, and while an accepted   *)
(* request is not yet answered the server has a step to take (a server     *)
(* that has none, with a request pending, answers it only if its client    *)
(* chooses to act, which no client has to).                                *)
(***************************************************************************)
C6_AnsweredExactlyOnce ==
    \A i \in Ids :
        /\ Len(responses[i]) <= 1
        /\ Ended(i) => Len(responses[i]) = 1
        /\ ~Ended(i) => ENABLED Server

(***************************************************************************)
(* C7.  Every response the server sends has status 200 or 304, and a 304   *)
(* is sent only in answer to a GET for a path under /api/.                 *)
(***************************************************************************)
C7_Only200Or304 ==
    \A i \in Ids : \A k \in 1..Len(responses[i]) :
        /\ responses[i][k].status \in {200, 304}
        /\ responses[i][k].status = 304 => (IsGet(i) /\ IsApi(i))

C7_Witness ==
    \E i \in Ids : \E j \in Ids :
        /\ Req(i).path = PathOrders /\ IsGet(i)
        /\ Len(responses[i]) = 1 /\ responses[i][1].status = 200
        /\ Req(j).path = PathOrders /\ IsGet(j)
        /\ Len(responses[j]) = 1 /\ responses[j][1].status = 304

(***************************************************************************)
(* C8.  Handling requests never writes the store: it always holds exactly  *)
(* the seed records of /api/users and /api/products, at version 1.         *)
(***************************************************************************)
C8_StoreNeverWritten == data_store = SeedStore

C8_Witness ==
    \E i \in Ids : \E j \in Ids :
        /\ IsGet(i) /\ Req(i).path = PathOrders /\ Ended(i)
        /\ Req(j).command \in {POST, PUT, DELETE} /\ Req(j).path = PathUsers
        /\ outcome[j] = "returned"

(***************************************************************************)
(* C9.  A PUT gets the response a POST with the same path, headers and     *)
(* body gets: same status, same headers, same envelope but for the         *)
(* timestamp.                                                              *)
(***************************************************************************)
SameUpload(i, j) ==
    /\ Req(i).command = POST
    /\ Req(j).command = PUT
    /\ Req(i).path = Req(j).path
    /\ Req(i).headers = Req(j).headers
    /\ conns[i].sent = conns[j].sent
    /\ Ended(i) /\ Ended(j)

C9_PutAnsweredAsPost ==
    \A i \in Ids : \A j \in Ids :
        SameUpload(i, j) =>
            /\ outcome[i] = outcome[j]
            /\ Len(responses[i]) = Len(responses[j])
            /\ \A k \in 1..Len(responses[i]) :
                  Timeless(responses[i][k]) = Timeless(responses[j][k])

C9_Witness ==
    \E i \in Ids : \E j \in Ids :
        /\ SameUpload(i, j)
        /\ Len(responses[i]) = 1 /\ Len(responses[j]) = 1
        /\ responses[j][1].body[1].body = "hi"
        /\ responses[j][1].body[1].method = "POST"

(***************************************************************************)
(* C10.  Each handled request (one whose handler has returned) logged      *)
(* exactly one line: the 304 line for a conditional hit, and               *)
(* "[name] METHOD path" otherwise.                                         *)
(***************************************************************************)
ConditionalHit(i) ==
    \E k \in 1..Len(responses[i]) : responses[i][k].status = 304

C10_OneLogLine ==
    \A i \in Ids :
        outcome[i] = "returned" =>
            /\ Len(log[i]) = 1
            /\ log[i][1] = IF ConditionalHit(i)
                           THEN Str(NotModifiedLine)
                           ELSE Str(RequestLine(Req(i)))
====
